---- MODULE Spec2Model ----
(***************************************************************************)
(* StatusManager (status_handling/status_manager.py): a context manager    *)
(* that maps known exceptions to charm statuses, and                       *)
(* get_first_worst_status, which picks the first of the worst statuses.    *)
(*                                                                         *)
(* Python objects are named by strings.  A class is named by its name; the *)
(* int 1 and None (used by the tests as table keys and values) are the     *)
(* strings "1" and "None".                                                 *)
(***************************************************************************)
EXTENDS Integers, Sequences, FiniteSets, TLC

(***************************************************************************)
(* Bounds of the model.                                                    *)
(***************************************************************************)
\* entries of a status_map passed to StatusManager(...)
MaxEntries == 2
\* `with sm:` blocks run by one caller
MaxTasks == 3
\* length of a list handed to get_first_worst_status directly
MaxLen == 3

(***************************************************************************)
(* The classes: the exceptions of this package and of the tests, the ops   *)
(* statuses the module imports, and OtherStatus, which stands for any      *)
(* StatusBase subclass that is none of the four ranked ones (ops has       *)
(* ErrorStatus and UnknownStatus).                                         *)
(***************************************************************************)
ExceptionClasses ==
    { "BaseException", "Exception", "TypeError", "ValueError", "KeyError",
      "BaseStatusError", "BlockedStatusError", "WaitingStatusError",
      "MaintenanceStatusError", "CustomError" }

StatusClasses ==
    { "StatusBase", "BlockedStatus", "WaitingStatus", "MaintenanceStatus",
      "ActiveStatus", "OtherStatus" }

Classes == ExceptionClasses \cup StatusClasses \cup { "object", "dict", "int", "str", "NoneType" }

\* The direct base class of each class.
Base(c) ==
    CASE c = "BaseException" -> "object"
      [] c = "Exception" -> "BaseException"
      [] c \in { "TypeError", "ValueError", "KeyError" } -> "Exception"
      [] c = "BaseStatusError" -> "Exception"
      [] c \in { "BlockedStatusError", "WaitingStatusError", "MaintenanceStatusError" }
            -> "BaseStatusError"
      [] c = "CustomError" -> "Exception"
      [] c = "StatusBase" -> "object"
      [] c \in { "BlockedStatus", "WaitingStatus", "MaintenanceStatus", "ActiveStatus",
                 "OtherStatus" } -> "StatusBase"
      [] OTHER -> "object"

RECURSIVE SubclassOf(_, _)
\* Python's issubclass(c, d) for a class c.
SubclassOf(c, d) ==
    IF c = d THEN TRUE
    ELSE IF c = "object" THEN FALSE
    ELSE SubclassOf(Base(c), d)

\* Python's issubclass(x, d): "raise" (a TypeError) when x is not a class.
issubclass(x, d) ==
    IF x \notin Classes THEN "raise"
    ELSE IF SubclassOf(x, d) THEN "true" ELSE "false"

\* Python's isinstance(obj, d) for an object that carries its class.
isinstance(obj, d) == SubclassOf(obj.type, d)

(***************************************************************************)
(* A dict literal is its items in insertion order; a dict is the function  *)
(* from its keys to their values.                                          *)
(***************************************************************************)
Keys(items) == { items[i][1] : i \in 1..Len(items) }

ToDict(items) ==
    [ k \in Keys(items) |-> items[CHOOSE i \in 1..Len(items) : items[i][1] = k][2] ]

\* the default table with a slip: an error class is given ActiveStatus
DefaultItems_with_active ==
    << << "BlockedStatusError", "BlockedStatus" >>,
       << "WaitingStatusError", "WaitingStatus" >>,
       << "MaintenanceStatusError", "ActiveStatus" >> >>

DefaultItems ==
    << << "BlockedStatusError", "BlockedStatus" >>,
       << "WaitingStatusError", "WaitingStatus" >>,
       << "MaintenanceStatusError", "MaintenanceStatus" >> >>

DEFAULT_STATUS_MAP == ToDict(DefaultItems)

(***************************************************************************)
(* _validate_status_map.  The table is read in the order of items(); the   *)
(* result is the exception raised at the first bad entry, or NoException.  *)
(* A TypeError raised inside either `try` is caught by that try's          *)
(* `except TypeError` and raised again with the "is not a class" text.     *)
(***************************************************************************)
NoException == [ exc |-> "none", text |-> "", about |-> "" ]

RaisedError(exc, text, about) == [ exc |-> exc, text |-> text, about |-> about ]

\* the key check with a slip: the TypeError of issubclass on a non-class is dropped
validate_key_lenient(exception_type) ==
    IF issubclass(exception_type, "Exception") = "false"
    THEN RaisedError("TypeError", "status_map key is not a class", exception_type)
    ELSE NoException

validate_key(exception_type) ==
    LET inTry == IF issubclass(exception_type, "Exception") = "raise"
                 THEN RaisedError("TypeError", "issubclass() arg 1 must be a class", exception_type)
                 ELSE IF issubclass(exception_type, "Exception") = "false"
                 THEN RaisedError("TypeError", "status_map key is not a subclass of Exception",
                                  exception_type)
                 ELSE NoException
    IN IF inTry.exc = "TypeError"
       THEN RaisedError("TypeError", "status_map key is not a class", exception_type)
       ELSE inTry

validate_value(status_type) ==
    LET inTry == IF issubclass(status_type, "StatusBase") = "raise"
                 THEN RaisedError("TypeError", "issubclass() arg 1 must be a class", status_type)
                 ELSE IF issubclass(status_type, "StatusBase") = "false"
                 THEN RaisedError("TypeError", "status_map value is not a subclass of StatusBase",
                                  status_type)
                 ELSE NoException
    IN IF inTry.exc = "TypeError"
       THEN RaisedError("TypeError", "status_map value is not a class", status_type)
       ELSE inTry

RECURSIVE validate_from(_, _)
validate_from(items, i) ==
    IF i > Len(items) THEN NoException
    ELSE IF validate_key(items[i][1]).exc # "none" THEN validate_key(items[i][1])
    ELSE IF validate_value(items[i][2]).exc # "none" THEN validate_value(items[i][2])
    ELSE validate_from(items, i + 1)

_validate_status_map(items) == validate_from(items, 1)

(***************************************************************************)
(* Values.  An exception instance carries its class and its args (at most  *)
(* one arg here: a str or an int, as in the tests' CustomError(0)).  A     *)
(* status carries its class and its message.                               *)
(***************************************************************************)
StrArg(s) == [ t |-> "str", s |-> s, n |-> 0 ]

IntArg(n) == [ t |-> "int", s |-> "", n |-> n ]

Digit == << "0", "1", "2", "3", "4", "5", "6", "7", "8", "9" >>

RECURSIVE IntToStr(_)
\* str(n) of a non-negative int.
IntToStr(n) ==
    IF n < 10 THEN Digit[n + 1] ELSE IntToStr(n \div 10) \o Digit[(n % 10) + 1]

\* str(exc_val): "None" for None; of an exception instance "" without args,
\* str(arg) with one.
Str(exc_val) ==
    IF exc_val.type = "None" THEN "None"
    ELSE IF Len(exc_val.args) = 0 THEN ""
    ELSE IF exc_val.args[1].t = "str" THEN exc_val.args[1].s
    ELSE IntToStr(exc_val.args[1].n)

\* status_type(message)
Status(status_type, message) == [ type |-> status_type, message |-> message ]

\* Python's None where a status is expected.
None == [ type |-> "NoneType", message |-> "" ]

\* (exc_type, exc_val) of a `with` block that ended without an exception.
NoExc == [ type |-> "None", args |-> << >> ]

\* Python's `a or b` on objects that are None or a status (a status is truthy).
Or(a, b) == IF a # None THEN a ELSE b

(***************************************************************************)
(* get_first_worst_status: one pass over the list with the four locals,    *)
(* leaving the loop at the first BlockedStatus.                            *)
(***************************************************************************)
RECURSIVE scan_skipping(_, _, _)
\* scan with a slip: a status of no known class is passed over
scan_skipping(sts, i, loc) ==
    IF i > Len(sts) THEN loc
    ELSE IF isinstance(sts[i], "BlockedStatus")
        THEN [ loc EXCEPT !.blocked = sts[i] ]
    ELSE IF isinstance(sts[i], "WaitingStatus")
        THEN scan_skipping(sts, i + 1, [ loc EXCEPT !.waiting = Or(loc.waiting, sts[i]) ])
    ELSE IF isinstance(sts[i], "MaintenanceStatus")
        THEN scan_skipping(sts, i + 1, [ loc EXCEPT !.maintenance = Or(loc.maintenance, sts[i]) ])
    ELSE IF isinstance(sts[i], "ActiveStatus")
        THEN scan_skipping(sts, i + 1, [ loc EXCEPT !.active = Or(loc.active, sts[i]) ])
    ELSE scan_skipping(sts, i + 1, loc)

RECURSIVE scan(_, _, _)
\* The for loop from index i on with the locals in `loc`; `raises` is set when
\* the loop body raised.
scan(sts, i, loc) ==
    IF i > Len(sts) THEN loc
    ELSE IF isinstance(sts[i], "BlockedStatus")
        THEN [ loc EXCEPT !.blocked = sts[i] ]
    ELSE IF isinstance(sts[i], "WaitingStatus")
        THEN scan(sts, i + 1, [ loc EXCEPT !.waiting = Or(loc.waiting, sts[i]) ])
    ELSE IF isinstance(sts[i], "MaintenanceStatus")
        THEN scan(sts, i + 1, [ loc EXCEPT !.maintenance = Or(loc.maintenance, sts[i]) ])
    ELSE IF isinstance(sts[i], "ActiveStatus")
        THEN scan(sts, i + 1, [ loc EXCEPT !.active = Or(loc.active, sts[i]) ])
    ELSE [ loc EXCEPT !.raises = RaisedError("TypeError", "found status, expected statuses of one of", sts[i].type) ]

\* get_first_worst_status with a slip: the ranking is read from the wrong end
get_first_worst_status_reversed(sts) ==
    IF Len(sts) = 0
    THEN [ raises |-> RaisedError("ValueError", "No statuses provided", ""), status |-> None ]
    ELSE LET loc == scan(sts, 1, [ raises |-> NoException, blocked |-> None, waiting |-> None,
                                   maintenance |-> None, active |-> None ])
         IN IF loc.raises.exc # "none"
            THEN [ raises |-> loc.raises, status |-> None ]
            ELSE [ raises |-> NoException,
                   status |-> Or(loc.active, Or(loc.maintenance, Or(loc.waiting, loc.blocked))) ]

\* get_first_worst_status with a slip: an empty list gets the default of worst()
get_first_worst_status_defaulting(sts) ==
    IF Len(sts) = 0
    THEN [ raises |-> NoException, status |-> Status("ActiveStatus", "") ]
    ELSE LET loc == scan(sts, 1, [ raises |-> NoException, blocked |-> None, waiting |-> None,
                                   maintenance |-> None, active |-> None ])
         IN IF loc.raises.exc # "none"
            THEN [ raises |-> loc.raises, status |-> None ]
            ELSE [ raises |-> NoException,
                   status |-> Or(loc.blocked, Or(loc.waiting, Or(loc.maintenance, loc.active))) ]

\* The result: the exception raised (NoException when it returns) and the status returned.
get_first_worst_status(sts) ==
    IF Len(sts) = 0
    THEN [ raises |-> RaisedError("ValueError", "No statuses provided", ""), status |-> None ]
    ELSE LET loc == scan(sts, 1, [ raises |-> NoException, blocked |-> None, waiting |-> None,
                                   maintenance |-> None, active |-> None ])
         IN IF loc.raises.exc # "none"
            THEN [ raises |-> loc.raises, status |-> None ]
            ELSE [ raises |-> NoException,
                   status |-> Or(loc.blocked, Or(loc.waiting, Or(loc.maintenance, loc.active))) ]

(***************************************************************************)
(* StatusManager methods as functions of the fields they read.             *)
(***************************************************************************)
\* __exit__ with a slip: the new status is put first
exit_prepending(map, sts, exc) ==
    IF exc.type \notin DOMAIN map
    THEN [ result |-> FALSE, statuses |-> sts ]
    ELSE [ result |-> TRUE, statuses |-> << Status(map[exc.type], Str(exc)) >> \o sts ]

\* __exit__ with a slip: the list is replaced by the new status
exit_replacing(map, sts, exc) ==
    IF exc.type \notin DOMAIN map
    THEN [ result |-> FALSE, statuses |-> sts ]
    ELSE [ result |-> TRUE, statuses |-> << Status(map[exc.type], Str(exc)) >> ]

\* __exit__ with a slip: the status is stored but the exception is not held back
exit_recording_only(map, sts, exc) ==
    IF exc.type \notin DOMAIN map
    THEN [ result |-> FALSE, statuses |-> sts ]
    ELSE [ result |-> FALSE, statuses |-> Append(sts, Status(map[exc.type], Str(exc))) ]

\* __exit__ with a slip: True is returned for an unknown exception too
exit_swallowing(map, sts, exc) ==
    IF exc.type \notin DOMAIN map
    THEN [ result |-> TRUE, statuses |-> sts ]
    ELSE [ result |-> TRUE, statuses |-> Append(sts, Status(map[exc.type], Str(exc))) ]

\* __exit__ with a slip: the table is searched with issubclass
exit_by_subclass(map, sts, exc) ==
    IF \A k \in DOMAIN map : ~(exc.type \in Classes /\ SubclassOf(exc.type, k))
    THEN [ result |-> FALSE, statuses |-> sts ]
    ELSE LET k == CHOOSE k \in DOMAIN map : SubclassOf(exc.type, k)
         IN [ result |-> TRUE, statuses |-> Append(sts, Status(map[k], Str(exc))) ]

\* __exit__: the value returned and the statuses list afterwards.
exit(map, sts, exc) ==
    IF exc.type \notin DOMAIN map
    THEN [ result |-> FALSE, statuses |-> sts ]
    ELSE [ result |-> TRUE, statuses |-> Append(sts, Status(map[exc.type], Str(exc))) ]

\* __len__
len(sts) == Len(sts)

\* worst() with a slip: the empty list is handed on
worst_unguarded(sts) == get_first_worst_status(sts)

\* worst()
worst(sts) ==
    IF len(sts) = 0
    THEN [ raises |-> NoException, status |-> Status("ActiveStatus", "") ]
    ELSE get_first_worst_status(sts)

\* The table __init__ validates and stores: the default one for None and for
\* any falsy status_map.
chosen_items(given, items) == IF ~given \/ Len(items) = 0 THEN DefaultItems ELSE items

(***************************************************************************)
(* The inputs the model draws from.                                        *)
(***************************************************************************)
\* keys and values a caller puts in a status_map ("dict", "1": the tests' bad ones)
TableKeys == { "CustomError", "BaseStatusError", "dict", "1", "None" }

TableValues ==
    { "BlockedStatus", "WaitingStatus", "MaintenanceStatus", "ActiveStatus", "OtherStatus",
      "dict", "1" }

\* dict literals of at most MaxEntries entries: the keys of a dict are distinct
ItemLists ==
    { items \in UNION { [ 1..n -> TableKeys \X TableValues ] : n \in 0..MaxEntries } :
        \A i, j \in 1..Len(items) : items[i][1] = items[j][1] => i = j }

\* what a task raises
RaisedClasses ==
    { "CustomError", "BaseStatusError", "BlockedStatusError", "WaitingStatusError",
      "MaintenanceStatusError" }

RaisedArgs == { << StrArg("a") >>, << IntArg(0) >> }

Raisable == [ type : RaisedClasses, args : RaisedArgs ]

\* elements of a list handed to get_first_worst_status: statuses, and the
\* tests' "not a status" str
ListElements ==
    [ type : { "BlockedStatus", "WaitingStatus", "MaintenanceStatus", "ActiveStatus",
               "OtherStatus" },
      message : { "a", "0" } ]
    \cup { [ type |-> "str", message |-> "not a status" ] }

StatusLists == UNION { [ 1..n -> ListElements ] : n \in 0..MaxLen }

(***************************************************************************)
(* State.                                                                  *)
(*   pc          where the caller is: "start" before anything is called,   *)
(*               "failed" when StatusManager(...) raised, "idle" between   *)
(*               `with` blocks, "in_scope" inside one, "raising" while an  *)
(*               exception leaves a `with` block, "crashed" when it left   *)
(*               the caller's loop, "selected" after a direct call of      *)
(*               get_first_worst_status                                    *)
(*   supplied    the status_map argument of __init__ (history)             *)
(*   status_map  self._status_map                                          *)
(*   statuses    self.statuses                                             *)
(*   raised      (exc_type, exc_val) of every __exit__ so far (history)    *)
(*   arg         the list handed to get_first_worst_status directly        *)
(*   ret         the outcome of the last call                              *)
(*   depth       the `with sm:` blocks the caller is inside of (the        *)
(*               caller's nesting; the StatusManager has no field for it)  *)
(***************************************************************************)
VARIABLES pc, supplied, status_map, statuses, raised, arg, ret, depth

vars == << pc, supplied, status_map, statuses, raised, arg, ret, depth >>

\* The outcome of a call: the exception it raised (NoException when it returned),
\* and what it returned or let through.
Outcome(op) ==
    [ op |-> op, raises |-> NoException, suppressed |-> FALSE, propagated |-> NoExc,
      n |-> 0, status |-> None ]

Init ==
    /\ pc = "start"
    /\ supplied = [ given |-> FALSE, dict |-> << >> ]
    /\ status_map = << >>
    /\ statuses = << >>
    /\ raised = << >>
    /\ arg = << >>
    /\ ret = Outcome("none")
    /\ depth = 0

\* StatusManager() and StatusManager(status_map=items)
Construct(given, items) ==
    /\ pc = "start"
    /\ supplied' = [ given |-> given, dict |-> ToDict(items) ]
    /\ statuses' = << >>
    /\ LET table == chosen_items(given, items)
           error == _validate_status_map(table)
       IN IF error.exc # "none"
          THEN /\ pc' = "failed"
               /\ ret' = [ Outcome("init") EXCEPT !.raises = error ]
               /\ UNCHANGED status_map
          ELSE /\ pc' = "idle"
               /\ ret' = Outcome("init")
               /\ status_map' = ToDict(table)
    /\ UNCHANGED << raised, arg, depth >>

\* __enter__
EnterScope ==
    /\ pc = "idle"
    /\ Len(raised) < MaxTasks
    /\ pc' = "in_scope"
    /\ depth' = depth + 1
    /\ ret' = Outcome("enter")
    /\ UNCHANGED << supplied, status_map, statuses, raised, arg >>

\* __enter__ of a `with sm:` inside a `with sm:` block of the same instance
EnterNested ==
    /\ pc = "in_scope"
    /\ Len(raised) + depth < MaxTasks
    /\ depth' = depth + 1
    /\ ret' = Outcome("enter")
    /\ UNCHANGED << pc, supplied, status_map, statuses, raised, arg >>

\* The task ends (exc = NoExc) or raises exc; __exit__(exc_type, exc_val, exc_tb)
\* runs, and the `with` statement raises exc again unless __exit__ returned True.
ExitScope(exc) ==
    /\ pc = "in_scope"
    /\ LET out == exit(status_map, statuses, exc)
           reraised == exc # NoExc /\ ~out.result
       IN /\ statuses' = out.statuses
          /\ ret' = [ Outcome("exit") EXCEPT !.suppressed = out.result,
                                             !.propagated = IF reraised THEN exc ELSE NoExc ]
          /\ pc' = IF reraised THEN "raising" ELSE IF depth > 1 THEN "in_scope" ELSE "idle"
    /\ depth' = depth - 1
    /\ raised' = Append(raised, exc)
    /\ UNCHANGED << supplied, status_map, arg >>

\* An exception that left an inner `with sm:` block and was not caught reaches
\* the enclosing one: its __exit__ is called with the same exception.
OuterExit ==
    /\ pc = "raising"
    /\ depth > 0
    /\ LET exc == ret.propagated
           out == exit(status_map, statuses, exc)
           reraised == exc # NoExc /\ ~out.result
       IN /\ statuses' = out.statuses
          /\ ret' = [ Outcome("exit") EXCEPT !.suppressed = out.result,
                                             !.propagated = IF reraised THEN exc ELSE NoExc ]
          /\ pc' = IF reraised THEN "raising" ELSE IF depth > 1 THEN "in_scope" ELSE "idle"
          /\ raised' = Append(raised, exc)
    /\ depth' = depth - 1
    /\ UNCHANGED << supplied, status_map, arg >>

\* The caller has a try/except around the `with` block.
CallerCatches ==
    /\ pc = "raising"
    /\ pc' = IF depth > 0 THEN "in_scope" ELSE "idle"
    /\ UNCHANGED << supplied, status_map, statuses, raised, arg, ret, depth >>

\* The caller has none: the exception leaves its loop (the tests' pytest.raises).
LoopAborts ==
    /\ pc = "raising"
    /\ depth = 0
    /\ pc' = "crashed"
    /\ UNCHANGED << supplied, status_map, statuses, raised, arg, ret, depth >>

\* len(sm)
Count ==
    /\ pc = "idle"
    /\ ret' = [ Outcome("len") EXCEPT !.n = len(statuses) ]
    /\ UNCHANGED << pc, supplied, status_map, statuses, raised, arg, depth >>

\* sm.worst()
Worst ==
    /\ pc = "idle"
    /\ LET w == worst(statuses)
       IN ret' = [ Outcome("worst") EXCEPT !.raises = w.raises, !.status = w.status ]
    /\ UNCHANGED << pc, supplied, status_map, statuses, raised, arg, depth >>

\* get_first_worst_status(sts) called directly
Select(sts) ==
    /\ pc = "start"
    /\ pc' = "selected"
    /\ arg' = sts
    /\ LET w == get_first_worst_status(sts)
       IN ret' = [ Outcome("select") EXCEPT !.raises = w.raises, !.status = w.status ]
    /\ UNCHANGED << supplied, status_map, statuses, raised, depth >>

Next ==
    \/ pc = "start" /\ Construct(FALSE, << >>)
    \/ pc = "start" /\ \E items \in ItemLists : Construct(TRUE, items)
    \/ EnterScope
    \/ pc = "in_scope" /\ \E exc \in Raisable \cup { NoExc } : ExitScope(exc)
    \/ CallerCatches
    \/ LoopAborts
    \/ Count
    \/ Worst
    \/ pc = "start" /\ \E sts \in StatusLists : Select(sts)

Spec == Init /\ [][Next]_vars

\* The same caller, who may also nest `with sm:` blocks of the one instance.
NextNested ==
    \/ Next
    \/ EnterNested
    \/ OuterExit

NestedSpec == Init /\ [][NextNested]_vars

(***************************************************************************)
(* What the properties are stated with.                                    *)
(***************************************************************************)
\* a StatusManager exists
Constructed == pc \in { "idle", "in_scope", "raising", "crashed" }

FourTiers == { "BlockedStatus", "WaitingStatus", "MaintenanceStatus", "ActiveStatus" }

\* The ranking of worst(): Blocked > Waiting > Maintenance > Active.
Severity(tier) ==
    CASE tier = "BlockedStatus" -> 3
      [] tier = "WaitingStatus" -> 2
      [] tier = "MaintenanceStatus" -> 1
      [] OTHER -> 0

\* The first of the most severe statuses of a non-empty list of ranked statuses.
FirstWorst(sts) ==
    sts[CHOOSE i \in 1..Len(sts) :
            \A j \in 1..Len(sts) :
                /\ Severity(sts[j].type) <= Severity(sts[i].type)
                /\ j < i => Severity(sts[j].type) < Severity(sts[i].type)]

Elements(sts) == { sts[i] : i \in 1..Len(sts) }

\* The last __exit__ was given exc.
ExitStep(exc) == pc = "in_scope" /\ raised' = Append(raised, exc)

\* Every `with` block so far raised an exception whose class is a key of the table.
AllMapped == \A i \in 1..Len(raised) : raised[i].type \in DOMAIN status_map

(***************************************************************************)
(* C1: when every task run in a `with` block of one StatusManager raised   *)
(* an exception whose class is a key of the table, no exception left a     *)
(* block, len() is the number of tasks, and the i-th status has the class  *)
(* the table gives for the i-th exception and the i-th exception's message *)
(* (the str of an int argument: CustomError(0) gives "0").                 *)
(***************************************************************************)
C1_MappedErrorsRecordedInOrder ==
    (Constructed /\ AllMapped) =>
        /\ pc \in { "idle", "in_scope" }
        /\ len(statuses) = Len(raised)
        /\ ret.op = "exit" => ret.suppressed /\ ret.propagated = NoExc
        /\ ret.op = "len" => ret.n = Len(raised)
        /\ \A i \in 1..Len(raised) :
              /\ statuses[i].type = status_map[raised[i].type]
              /\ raised[i].args[1].t = "str" => statuses[i].message = raised[i].args[1].s
              /\ raised[i].args = << IntArg(0) >> => statuses[i].message = "0"

C1_Witness ==
    /\ pc = "idle" /\ AllMapped /\ supplied.given /\ ret.op = "len"
    /\ Len(raised) = 3
    /\ raised[1].type # raised[2].type
    /\ raised[1].args = << IntArg(0) >> /\ raised[2].args = << StrArg("a") >>

(***************************************************************************)
(* C2: an __exit__ given an exception whose class is not a key of the      *)
(* table returns False, appends nothing, and the same exception leaves the *)
(* `with` block; once it has left the caller's loop no further task runs.  *)
(***************************************************************************)
C2_UnmappedErrorPropagates ==
    [][ /\ \A exc \in Raisable :
             (ExitStep(exc) /\ exc.type \notin DOMAIN status_map) =>
                 /\ statuses' = statuses
                 /\ ret'.op = "exit" /\ ~ret'.suppressed /\ ret'.propagated = exc
                 /\ pc' = "raising"
        /\ pc = "raising" => (pc' \in { "idle", "crashed" } /\ statuses' = statuses
                                /\ raised' = raised /\ ret' = ret)
        /\ pc = "crashed" => UNCHANGED vars ]_vars

C2_Witness ==
    /\ pc = "crashed" /\ Len(statuses) = 2 /\ Len(raised) = 3
    /\ ret.propagated = raised[3] /\ raised[3].type \notin DOMAIN status_map

(***************************************************************************)
(* C3: get_first_worst_status on a non-empty list of statuses of the four  *)
(* ranked classes returns the element at the smallest index among those of *)
(* the most severe class present; the classes alone decide the index.      *)
(***************************************************************************)
C3_SelectorFirstWorst ==
    (pc = "selected" /\ Len(arg) > 0 /\ \A i \in 1..Len(arg) : arg[i].type \in FourTiers) =>
        /\ ret.raises = NoException
        /\ ret.status = FirstWorst(arg)
        /\ ret.status \in Elements(arg)

C3_Witness ==
    /\ pc = "selected" /\ Len(arg) = 3
    /\ arg[1].type = "MaintenanceStatus" /\ arg[2].type = "WaitingStatus"
    /\ arg[3].type = "WaitingStatus" /\ arg[2].message # arg[3].message
    /\ ret.status = arg[2]

(***************************************************************************)
(* C4 (as claimed): worst() on a StatusManager with at least one status    *)
(* returns the first of the most severe statuses recorded, which is        *)
(* get_first_worst_status of the list and one of the recorded statuses.    *)
(***************************************************************************)
C4_WorstIsFirstWorstRecorded ==
    (ret.op = "worst" /\ Len(statuses) > 0) =>
        /\ ret.raises = NoException
        /\ ret.status = FirstWorst(statuses)
        /\ ret.status \in Elements(statuses)

(***************************************************************************)
(* C5: worst() on a StatusManager without statuses returns ActiveStatus("")*)
(* and raises nothing; worst() never raises the ValueError that            *)
(* get_first_worst_status raises on an empty list.                         *)
(***************************************************************************)
C5_WorstOfNothingIsActive ==
    ret.op = "worst" =>
        /\ ret.raises.exc # "ValueError"
        /\ Len(statuses) = 0 =>
              /\ ret.raises = NoException
              /\ ret.status = [ type |-> "ActiveStatus", message |-> "" ]

C5_Witness ==
    /\ ret.op = "worst" /\ Len(statuses) = 0
    /\ Len(raised) = 2 /\ raised[1] = NoExc /\ raised[2] = NoExc

(***************************************************************************)
(* C6 (as claimed): StatusManager(status_map) raises TypeError whenever    *)
(* the table has a key that is no exception class or a value that is none  *)
(* of the four ranked status classes.                                      *)
(***************************************************************************)
ErrorKinds == ExceptionClasses \ { "BaseException" }

HasBadEntry(dict) ==
    \E k \in DOMAIN dict : k \notin ErrorKinds \/ dict[k] \notin FourTiers

C6_BadTableRejected ==
    (pc \notin { "start", "selected" } /\ supplied.given /\ HasBadEntry(supplied.dict)) =>
        /\ pc = "failed"
        /\ ret.op = "init" /\ ret.raises.exc = "TypeError"

(***************************************************************************)
(* C7 (as claimed): get_first_worst_status raises TypeError on every list  *)
(* that holds a status of none of the four ranked classes, wherever it is. *)
(***************************************************************************)
C7_UnrecognizedAnywhereRaises ==
    (pc = "selected" /\ \E i \in 1..Len(arg) : arg[i].type \notin FourTiers) =>
        /\ ret.raises.exc = "TypeError"
        /\ ret.status = None

(***************************************************************************)
(* C7 (amended): get_first_worst_status raises TypeError on every list     *)
(* that holds a status of none of the four ranked classes before its first *)
(* BlockedStatus (or holds one and no BlockedStatus); when a BlockedStatus *)
(* comes first, the rest of the list is not read and it is returned.       *)
(***************************************************************************)
BeforeFirstBlocked(sts, i) == \A j \in 1..i : sts[j].type # "BlockedStatus"

C7_UnrecognizedBeforeBlockedRaises ==
    pc = "selected" =>
        /\ (\E i \in 1..Len(arg) : arg[i].type \notin FourTiers /\ BeforeFirstBlocked(arg, i)) =>
              (ret.raises.exc = "TypeError" /\ ret.status = None)
        /\ (\E i \in 1..Len(arg) :
                /\ arg[i].type = "BlockedStatus"
                /\ \A j \in 1..(i - 1) : arg[j].type \in FourTiers \ { "BlockedStatus" }) =>
              (ret.raises = NoException /\ ret.status.type = "BlockedStatus")

C7_Witness ==
    /\ pc = "selected" /\ Len(arg) = 3
    /\ arg[1].type = "WaitingStatus" /\ arg[2].type = "OtherStatus"
    /\ arg[3].type = "BlockedStatus"
    /\ ret.raises.exc = "TypeError"

(***************************************************************************)
(* C8: get_first_worst_status([]) raises ValueError and returns nothing;   *)
(* whatever get_first_worst_status returns is an element of its list.      *)
(***************************************************************************)
C8_SelectorEmptyRaises ==
    pc = "selected" =>
        /\ Len(arg) = 0 => (ret.raises.exc = "ValueError" /\ ret.status = None)
        /\ ret.raises = NoException => ret.status \in Elements(arg)

C8_Witness == pc = "selected" /\ arg = << >> /\ ret.raises.exc = "ValueError"

(***************************************************************************)
(* C9 (as claimed): a StatusManager built with a table keeps that table:   *)
(* an exception is absorbed exactly when its class is a key of the table   *)
(* that was supplied, so with a supplied empty table nothing is absorbed   *)
(* and len() stays 0.                                                      *)
(***************************************************************************)
C9_SuppliedTableIsUsed ==
    (Constructed /\ supplied.given) =>
        /\ (ret.op = "exit" /\ raised[Len(raised)] # NoExc) =>
              (ret.suppressed <=> raised[Len(raised)].type \in DOMAIN supplied.dict)
        /\ DOMAIN supplied.dict = {} => Len(statuses) = 0

(***************************************************************************)
(* C10: an __exit__ given an exception whose class is a strict subclass of *)
(* a key of the table, and no key itself, returns False, appends nothing,  *)
(* and the same exception leaves the `with` block.                         *)
(***************************************************************************)
C10_LookupIsByExactClass ==
    [][ \A exc \in Raisable :
          ( /\ ExitStep(exc)
            /\ exc.type \notin DOMAIN status_map
            /\ \E k \in DOMAIN status_map : k # exc.type /\ SubclassOf(exc.type, k) ) =>
              /\ statuses' = statuses
              /\ ~ret'.suppressed
              /\ ret'.propagated = exc
              /\ pc' = "raising" ]_vars

C10_Witness ==
    /\ pc = "raising" /\ ret.propagated.type = "BlockedStatusError"
    /\ DOMAIN status_map = { "BaseStatusError", "CustomError" }
    /\ Len(statuses) = 1

(***************************************************************************)
(* C11: no accepted table has None, the exc_type of a `with` block that    *)
(* ended without an exception, as a key; __exit__(None, None, None)        *)
(* returns False, nothing is raised, and statuses, len() and worst() are   *)
(* what they were.                                                         *)
(***************************************************************************)
C11_CleanExitRecordsNothing ==
    /\ [](Constructed => "None" \notin DOMAIN status_map)
    /\ [][ ExitStep(NoExc) =>
              /\ statuses' = statuses
              /\ ret'.op = "exit" /\ ~ret'.suppressed /\ ret'.propagated = NoExc
              /\ pc' = "idle"
              /\ len(statuses') = len(statuses)
              /\ worst(statuses') = worst(statuses) ]_vars

C11_Witness ==
    /\ pc = "idle" /\ ret.op = "exit" /\ Len(raised) = 2
    /\ raised[2] = NoExc /\ raised[1] # NoExc /\ Len(statuses) = 1

(***************************************************************************)
(* C12: statuses is empty after __init__, is changed by no call but        *)
(* __exit__, and every __exit__ keeps the old list as a prefix of the new  *)
(* one, one element longer when the exception's class is a key of the      *)
(* table and as long otherwise; len() never decreases and is the length of *)
(* the list whenever it is called.                                         *)
(***************************************************************************)
C12_StatusesAppendOnly ==
    [][ /\ (pc = "start" /\ pc' = "idle") => statuses' = << >>
        /\ (Constructed /\ raised' = raised) => statuses' = statuses
        /\ \A exc \in Raisable \cup { NoExc } :
              (Constructed /\ raised' = Append(raised, exc)) =>
                  /\ SubSeq(statuses', 1, Len(statuses)) = statuses
                  /\ Len(statuses') =
                        Len(statuses) + (IF exc.type \in DOMAIN status_map THEN 1 ELSE 0)
        /\ Len(statuses') >= Len(statuses)
        /\ ret'.op = "len" => ret'.n = Len(statuses')
        /\ (ret.op = "worst" /\ ret'.op = "worst") => ret' = ret ]_vars

C12_Witness ==
    /\ pc = "idle" /\ ret.op = "len" /\ ret.n = 2 /\ Len(raised) = 3
    /\ raised[2].type \notin DOMAIN status_map
    /\ statuses[1] # statuses[2]

(***************************************************************************)
(* C13: in a StatusManager built without a table every status is a         *)
(* BlockedStatus, WaitingStatus or MaintenanceStatus, the one named by the *)
(* class of the exception it was made from, and never an ActiveStatus;     *)
(* worst() returns an ActiveStatus exactly when there is no status.        *)
(***************************************************************************)
Signalled(kind) ==
    CASE kind = "BlockedStatusError" -> "BlockedStatus"
      [] kind = "WaitingStatusError" -> "WaitingStatus"
      [] kind = "MaintenanceStatusError" -> "MaintenanceStatus"
      [] OTHER -> "none"

IsSignal(exc) == Signalled(exc.type) # "none"

C13_DefaultTableNeverActive ==
    (Constructed /\ ~supplied.given) =>
        /\ Len(statuses) = Len(SelectSeq(raised, IsSignal))
        /\ \A i \in 1..Len(statuses) :
              /\ statuses[i].type = Signalled(SelectSeq(raised, IsSignal)[i].type)
              /\ statuses[i].type # "ActiveStatus"
        /\ worst(statuses).raises = NoException
        /\ worst(statuses).status.type = "ActiveStatus" <=> Len(statuses) = 0
        /\ ret.op = "worst" => (ret.status.type = "ActiveStatus" <=> Len(statuses) = 0)

C13_Witness ==
    /\ ~supplied.given /\ pc = "idle" /\ ret.op = "worst" /\ Len(statuses) = 3
    /\ statuses[1].type = "MaintenanceStatus" /\ statuses[2].type = "WaitingStatus"
    /\ statuses[3].type = "BlockedStatus" /\ ret.status = statuses[3]

(***************************************************************************)
(* C14 (as claimed): over the calls on one StatusManager the severity of   *)
(* what worst() returns never decreases; it changes from one recorded      *)
(* status to another only when an __exit__ appends a status more severe    *)
(* than every status before; once it is a BlockedStatus it stays that one. *)
(***************************************************************************)
C14_WorstNeverImproves ==
    [][ Constructed =>
          /\ worst(statuses').raises = NoException
          /\ Severity(worst(statuses').status.type) >= Severity(worst(statuses).status.type)
          /\ (Len(statuses) > 0 /\ worst(statuses') # worst(statuses)) =>
                /\ Len(statuses') = Len(statuses) + 1
                /\ \A i \in 1..Len(statuses) :
                      Severity(statuses'[Len(statuses')].type) > Severity(statuses[i].type)
          /\ worst(statuses).status.type = "BlockedStatus" =>
                worst(statuses') = worst(statuses) ]_vars

(***************************************************************************)
(* C16 (as claimed): the TypeError of _validate_status_map names the bad   *)
(* key or value, and says "is not a subclass of ..." when that is a class  *)
(* and "is not a class" only when it is no class.                          *)
(***************************************************************************)
C16_TwoDistinctMessages ==
    pc = "failed" =>
        /\ ret.raises.exc = "TypeError"
        /\ ret.raises.about \in DOMAIN supplied.dict
              \/ \E k \in DOMAIN supplied.dict : supplied.dict[k] = ret.raises.about
        /\ ret.raises.about \in Classes =>
              ret.raises.text \in { "status_map key is not a subclass of Exception",
                                    "status_map value is not a subclass of StatusBase" }
        /\ ret.raises.about \notin Classes =>
              ret.raises.text \in { "status_map key is not a class",
                                    "status_map value is not a class" }

(***************************************************************************)
(* C15: __enter__ changes no field, and what an __exit__ does is decided   *)
(* by the table and the exception alone, however many `with sm:` blocks    *)
(* are open.  With nested blocks of one instance, a mapped exception       *)
(* raised in the innermost block is recorded once and held back there: the *)
(* enclosing block goes on without an exception, and an exception that     *)
(* does reach an enclosing __exit__ from inside is never one it records.   *)
(***************************************************************************)
C15_NoPerScopeState ==
    [][ /\ depth' = depth + 1 =>
              /\ statuses' = statuses /\ status_map' = status_map /\ raised' = raised
              /\ ret' = Outcome("enter")
        /\ \A exc \in Raisable \cup { NoExc } :
              (depth' = depth - 1 /\ raised' = Append(raised, exc)) =>
                  /\ ret'.suppressed <=> exc.type \in DOMAIN status_map
                  /\ exc.type \notin DOMAIN status_map => statuses' = statuses
                  /\ exc.type \in DOMAIN status_map =>
                        /\ Len(statuses') = Len(statuses) + 1
                        /\ SubSeq(statuses', 1, Len(statuses)) = statuses
                        /\ statuses'[Len(statuses')].type = status_map[exc.type]
                        /\ exc.args[1].t = "str" =>
                              statuses'[Len(statuses')].message = exc.args[1].s
                        /\ ret'.propagated = NoExc
                        /\ pc' = IF depth >= 2 THEN "in_scope" ELSE "idle"
        /\ (pc = "raising" /\ raised' # raised) =>
              /\ raised'[Len(raised')] = ret.propagated
              /\ ret.propagated.type \notin DOMAIN status_map
              /\ statuses' = statuses ]_vars

C15_Witness ==
    /\ pc = "in_scope" /\ depth = 1 /\ ret.op = "exit" /\ ret.suppressed
    /\ Len(raised) = 1 /\ Len(statuses) = 1
    /\ statuses[1].type = status_map[raised[1].type]

====
